---- MODULE Spec2Model ----
(***************************************************************************)
(* Model of the SSH key bootstrap tool: SSHKeyManager (src/ssh_utils.py)   *)
(* and the deploy handler of SSHAutomation (src/ssh_automation.py).        *)
(*                                                                         *)
(* Text (key material, file contents, command output) is a sequence of     *)
(* one-character strings, so that strip(), the substring test and the      *)
(* line structure of authorized_keys are computed, not assumed.            *)
(* Permission modes are the integers chmod works with.                     *)
(***************************************************************************)
EXTENDS Integers, Sequences, FiniteSets, TLC

\* ------------------------------------------------------------------ bounds
\* deployment requests (menu choice 3) issued in one behaviour
MaxRequests == 2
\* remote commands the environment makes fail within one request
MaxFaults == 1

\* ------------------------------------------------------------------- modes
Mode(u, g, o) == u * 64 + g * 8 + o
O700 == Mode(7, 0, 0)
O600 == Mode(6, 0, 0)
O644 == Mode(6, 4, 4)
O755 == Mode(7, 5, 5)
O775 == Mode(7, 7, 5)

GroupWorldWritable(m) == ((m \div 16) % 2 = 1) \/ ((m \div 2) % 2 = 1)

\* -------------------------------------------------------------------- text
NL == "\n"

RECURSIVE LStrip(_)
LStrip(s) == IF s # <<>> /\ Head(s) = NL THEN LStrip(Tail(s)) ELSE s

RECURSIVE RStrip(_)
RStrip(s) ==
    IF s # <<>> /\ s[Len(s)] = NL THEN RStrip(SubSeq(s, 1, Len(s) - 1)) ELSE s

\* str.strip()
Strip(s) == LStrip(RStrip(s))

\* the Python test  `s in t`  on strings
IsSubstring(s, t) ==
    \E i \in 0..(Len(t) - Len(s)) : SubSeq(t, i + 1, i + Len(s)) = s

\* the lines of a text, in order; a last line without newline counts
RECURSIVE SplitLines(_, _)
SplitLines(t, cur) ==
    IF t = <<>> THEN (IF cur = <<>> THEN <<>> ELSE <<cur>>)
    ELSE IF Head(t) = NL THEN <<cur>> \o SplitLines(Tail(t), <<>>)
    ELSE SplitLines(Tail(t), Append(cur, Head(t)))

Lines(t) == SplitLines(t, <<>>)

\* how many lines of t are exactly the line k
CountLine(k, t) == Cardinality({i \in DOMAIN Lines(t) : Lines(t)[i] = k})

\* ------------------------------------------------ local key directory state
\* key material the key-generation tool can produce
KeyMaterial == {<<"a">>, <<"b">>}
\* modes the tool may leave on the private key file (the tool is a black box)
KeygenModes == {O600, O644}

NoLocal ==
    [dir |-> FALSE, dirMode |-> 0, priv |-> FALSE, privMode |-> 0,
     pub |-> FALSE, pubMode |-> 0, pubContent |-> <<>>]

LocalInits ==
    { NoLocal,
      [NoLocal EXCEPT !.dir = TRUE, !.dirMode = O755],
      [NoLocal EXCEPT !.dir = TRUE, !.dirMode = O755, !.priv = TRUE,
                      !.privMode = O600, !.pub = TRUE, !.pubMode = O644,
                      !.pubContent = <<"a", NL>>],
      [NoLocal EXCEPT !.dir = TRUE, !.dirMode = O700, !.priv = TRUE,
                      !.privMode = O600] }

LocalFaults == {"none", "mkdir", "chmod_dir", "keygen", "chmod_priv", "chmod_pub"}

\* ensure_ssh_directory: result record [local, ok, writes]
EnsureSshDirectory(l, fault) ==
    LET made == IF l.dir THEN l ELSE [l EXCEPT !.dir = TRUE, !.dirMode = O700]
        w1 == IF l.dir THEN <<>> ELSE <<"makedirs">>
    IN  IF ~l.dir /\ fault = "mkdir"
        THEN [local |-> l, ok |-> FALSE, writes |-> <<>>]
        ELSE IF fault = "chmod_dir"
        THEN [local |-> made, ok |-> FALSE, writes |-> w1]
        ELSE [local |-> [made EXCEPT !.dirMode = O700], ok |-> TRUE,
              writes |-> Append(w1, "chmod_dir")]

\* an existing-key branch that re-applies the key file permissions
ExistingKeyRechmod(l, w) ==
    IF l.pub
    THEN [local |-> [l EXCEPT !.privMode = O600, !.pubMode = O644], ok |-> TRUE,
          key |-> Strip(l.pubContent),
          writes |-> w \o <<"chmod_priv", "chmod_pub">>, keygen |-> FALSE]
    ELSE [local |-> l, ok |-> FALSE, key |-> <<>>, writes |-> w, keygen |-> FALSE]

\* the branch of generate_key_pair taken when the private key file exists
ExistingKey(l, w) ==
    IF l.pub
    THEN [local |-> l, ok |-> TRUE, key |-> Strip(l.pubContent),
          writes |-> w, keygen |-> FALSE]
    ELSE [local |-> l, ok |-> FALSE, key |-> <<>>, writes |-> w, keygen |-> FALSE]

\* the branch of generate_key_pair that runs ssh-keygen
NewKey(l, w, fault, k, mode) ==
    LET gen == [l EXCEPT !.priv = TRUE, !.privMode = mode, !.pub = TRUE,
                         !.pubMode = O644, !.pubContent = Append(k, NL)]
        wg == Append(w, "ssh-keygen")
        p1 == [gen EXCEPT !.privMode = O600]
        p2 == [p1 EXCEPT !.pubMode = O644]
    IN  IF fault = "keygen"
        THEN [local |-> l, ok |-> FALSE, key |-> <<>>, writes |-> w, keygen |-> TRUE]
        ELSE IF fault = "chmod_priv"
        THEN [local |-> gen, ok |-> FALSE, key |-> <<>>, writes |-> wg, keygen |-> TRUE]
        ELSE IF fault = "chmod_pub"
        THEN [local |-> p1, ok |-> FALSE, key |-> <<>>,
              writes |-> Append(wg, "chmod_priv"), keygen |-> TRUE]
        ELSE [local |-> p2, ok |-> TRUE, key |-> Strip(p2.pubContent),
              writes |-> wg \o <<"chmod_priv", "chmod_pub">>, keygen |-> TRUE]

\* generate_key_pair: result record [local, ok, key, writes, keygen]
GenerateKeyPairResult(l, fault, k, mode) ==
    LET d == EnsureSshDirectory(l, fault)
    IN  IF ~d.ok
        THEN [local |-> d.local, ok |-> FALSE, key |-> <<>>,
              writes |-> d.writes, keygen |-> FALSE]
        ELSE IF d.local.priv
        THEN ExistingKey(d.local, d.writes)
        ELSE NewKey(d.local, d.writes, fault, k, mode)

\* ------------------------------------------------------ remote account state
NoRemote ==
    [home |-> O755, sshDir |-> FALSE, sshMode |-> 0, ak |-> FALSE, akMode |-> 0,
     akContent |-> <<>>, bak |-> FALSE, bakContent |-> <<>>]

RemoteInits ==
    { NoRemote,
      [NoRemote EXCEPT !.home = O775, !.sshDir = TRUE, !.sshMode = O755],
      [NoRemote EXCEPT !.sshDir = TRUE, !.sshMode = O700, !.ak = TRUE,
                       !.akMode = O644, !.akContent = <<"b", NL>>],
      [NoRemote EXCEPT !.sshDir = TRUE, !.sshMode = O700, !.ak = TRUE,
                       !.akMode = O600, !.akContent = <<"a", "b">>] }

\* the fixed command list of deploy_public_key, in order
Commands ==
    << "mkdir", "chmod_home", "chmod_ssh", "chmod_ak_quiet", "backup", "append",
       "chmod_ak", "restorecon", "ls_ak", "ls_ssh", "ls_home" >>

\* commands written with  2>/dev/null || true : they print nothing on stderr
Silenced == {"chmod_ak_quiet", "backup", "restorecon"}

Ok(r) == [remote |-> r, err |-> FALSE]
Err(r) == [remote |-> r, err |-> TRUE]

\* a command list that takes ~/.ssh for granted
MkdirSkipped(r) == Ok(r)

\* mkdir -p ~/.ssh
Mkdir(r) ==
    IF r.sshDir THEN Ok(r) ELSE Ok([r EXCEPT !.sshDir = TRUE, !.sshMode = O755])

\* a command list without the chmod of the home directory
ChmodHomeSkipped(r) == Ok(r)

\* chmod 700 ~
ChmodHome(r) == Ok([r EXCEPT !.home = O700])

\* chmod 700 ~/.ssh
ChmodSsh(r) == IF r.sshDir THEN Ok([r EXCEPT !.sshMode = O700]) ELSE Err(r)

\* chmod 600 ~/.ssh/authorized_keys 2>/dev/null || true
ChmodAkQuiet(r) == IF r.ak THEN Ok([r EXCEPT !.akMode = O600]) ELSE Ok(r)

\* cp ~/.ssh/authorized_keys ~/.ssh/authorized_keys.bak 2>/dev/null || true
Backup(r) ==
    IF r.ak THEN Ok([r EXCEPT !.bak = TRUE, !.bakContent = r.akContent]) ELSE Ok(r)

\* echo "{public_key}" >> ~/.ssh/authorized_keys
AppendKey(r, k) ==
    IF ~r.sshDir THEN Err(r)
    ELSE IF r.ak THEN Ok([r EXCEPT !.akContent = r.akContent \o k \o <<NL>>])
    ELSE Ok([r EXCEPT !.ak = TRUE, !.akMode = O644, !.akContent = k \o <<NL>>])

\* chmod 600 ~/.ssh/authorized_keys
ChmodAk(r) == IF r.ak THEN Ok([r EXCEPT !.akMode = O600]) ELSE Err(r)

\* the effect of one command of the list when the remote shell runs it
CmdEffect(c, r, k) ==
    CASE c = "mkdir" -> Mkdir(r)
      [] c = "chmod_home" -> ChmodHome(r)
      [] c = "chmod_ssh" -> ChmodSsh(r)
      [] c = "chmod_ak_quiet" -> ChmodAkQuiet(r)
      [] c = "backup" -> Backup(r)
      [] c = "append" -> AppendKey(r, k)
      [] c = "chmod_ak" -> ChmodAk(r)
      [] c = "restorecon" -> Ok(r)
      [] c = "ls_ak" -> IF r.ak THEN Ok(r) ELSE Err(r)
      [] c = "ls_ssh" -> IF r.sshDir THEN Ok(r) ELSE Err(r)
      [] c = "ls_home" -> Ok(r)

\* exec_command of command c: the environment may make the command fail
\* (no effect, a diagnostic on stderr unless silenced)
RunCommand(c, r, k, fault) ==
    IF fault = "fail"
    THEN [remote |-> r, err |-> c \notin Silenced]
    ELSE CmdEffect(c, r, k)

\* cat ~/.ssh/authorized_keys : stdout, then .strip()
ConfirmContent(r) == IF r.ak THEN Strip(r.akContent) ELSE <<>>

\* a confirmation that only tests that the file printed something
KeyMissingOnlyEmpty(k, c) == c = <<>>

\* the test of line 134: True when the deployment is to be reported failed
KeyMissing(k, content) == ~IsSubstring(k, content)

\* what the server answers to the key-only session of verify_connection:
\* it authenticates the key when public-key authentication is enabled, the
\* key is a line of authorized_keys and no path component is group/world
\* writable
AuthAccepts(r, k, policy) ==
    /\ policy
    /\ r.sshDir /\ r.ak
    /\ k # <<>>
    /\ CountLine(k, r.akContent) > 0
    /\ ~GroupWorldWritable(r.home)
    /\ ~GroupWorldWritable(r.sshMode)
    /\ ~GroupWorldWritable(r.akMode)

\* outcomes of running the ssh client other than authentication itself
VerifyFaults == {"none", "protocol", "timeout", "spawn"}

\* process.returncode == 0 within the timeout
CleanEcho(r, k, policy, vfault) == vfault = "none" /\ AuthAccepts(r, k, policy)

\* a verification that lets a failure to start the ssh client escape
VerifyStateFaultEscapes(r, k, pol, f) ==
    IF f = "spawn" THEN "SessionAttempted"
    ELSE IF CleanEcho(r, k, pol, f) THEN "Verified" ELSE "Unverified"

\* the final state of the verification state machine
VerifyState(r, k, policy, vfault) ==
    IF CleanEcho(r, k, policy, vfault) THEN "Verified" ELSE "Unverified"

\* a report that takes a returned verification for a successful one
OutcomeIgnoringVerify(dep, v) ==
    IF dep # "True" THEN "failed" ELSE "deployed-and-verified"

\* the tri-state outcome printed by deploy_ssh_key
OutcomeOf(dep, v) ==
    IF dep # "True" THEN "failed"
    ELSE IF v = "Verified" THEN "deployed-and-verified"
    ELSE "deployed-unverified"

\* ------------------------------------------------------------ program state
VARIABLES
    local,        \* the workstation's key directory and key files
    remote,       \* the remote account: modes, authorized_keys, its .bak
    remoteInit,   \* the remote account before the first request
    policy,       \* the server had public-key authentication enabled when verified
    pc,           \* position of the deploy handler
    cmdIdx,       \* index of the next command of the list
    public_key,   \* the key material deploy_public_key holds
    deployed,     \* return value of deploy_public_key: "pending", "True", "False"
    vstate,       \* state of the verification state machine
    outcome,      \* what deploy_ssh_key reports
    sessionOpen,  \* the bootstrap session is open
    connected,    \* "no", "ok", "failed": what ssh.connect did in this request
    confirmRead,  \* the confirmation read has been made in this request
    content,      \* what the confirmation read returned
    executed,     \* the commands executed in this request, in order
    faulted,      \* the commands the environment made fail in this request
    warned,       \* the commands whose stderr was logged as a warning
    raised,       \* exec_command raised in this request
    requests,     \* deployment requests issued so far
    okDeploys,    \* requests in which deploy_public_key returned True
    local0,       \* the key directory when generate_key_pair was entered
    remote0,      \* the remote account when the request began
    keyExisted,   \* the private key file existed when generate_key_pair began
    keyCalls,     \* "none", "ok", "failed": how generate_key_pair ended
    fsWrites,     \* write operations generate_key_pair issued in this request
    keygenRan,    \* ssh-keygen was invoked in this request
    returned,     \* keys returned by the successful generate_key_pair calls
    vfault,       \* how the ssh client of verify_connection ended
    vtrace,       \* the verification states visited in this request
    leaked,       \* a bootstrap session of an earlier request is still open
    connects,     \* ssh.connect calls made in this request
    reports,      \* outcomes reported to the operator in this request
    conn_info,    \* SSHAutomation.conn_info: "None" or the parameters it holds
    ssh_config,   \* the module-level SSH_CONFIG dictionary
    inputs,       \* what the operator may answer at the connection prompts
    lastOp,       \* the menu operation chosen last
    prompted,     \* that operation asked for the connection parameters
    connAtStart,  \* conn_info when that operation began
    faultBudget,  \* how many remote commands the environment may disturb per request
    peerKey,      \* the key a second deployer appends, <<>> when there is none
    peerIdx,      \* index of the second deployer's next command, 0 when there is none
    peerDeployed  \* return value of the second deployer's deploy_public_key

vars ==
    << local, remote, remoteInit, policy, pc, cmdIdx, public_key, deployed,
       vstate, outcome, sessionOpen, connected, confirmRead, content, executed,
       faulted, warned, raised, requests, okDeploys, local0, remote0,
       keyExisted, keyCalls, fsWrites, keygenRan, returned, vfault, vtrace,
       leaked, connects, reports,
       conn_info, ssh_config, inputs, lastOp, prompted, connAtStart,
       faultBudget, peerKey, peerIdx, peerDeployed >>

\* the part of the state one request leaves alone unless it says otherwise
keyVars == << local, local0, keyExisted, keyCalls, fsWrites, keygenRan, returned, public_key >>
cmdVars == << remote, cmdIdx, executed, faulted, warned, raised >>
confirmVars == << confirmRead, content, okDeploys >>
verifyVars == << vstate, outcome, vfault, vtrace, policy >>
fixedVars == << remoteInit, requests, remote0, leaked, faultBudget >>
countVars == << connects, reports >>
menuVars == << conn_info, ssh_config, inputs, lastOp, prompted, connAtStart >>
peerVars == << peerKey, peerIdx, peerDeployed >>

\* the connection parameters of two servers
Targets == {"t1", "t2"}

\* answers at the prompts of get_connection_info: every field left blank,
\* or the parameters of a server typed in
Typed == {"blank"} \cup Targets

\* get_connection_info: a blank answer falls back to SSH_CONFIG, whose
\* initial value "empty" has no host, no user and no password
GetConnectionInfo(typed, cfg) == IF typed = "blank" THEN cfg ELSE typed

\* a handler that asks for the parameters on every call
NeedsPromptAlways(ci) == TRUE

\* 'if not self.conn_info': only None is false, a dictionary of four
\* entries is true even when its values are empty strings
NeedsPrompt(ci) == ci = "None"

\* lines 70-71, 91-92, 119-120: the handler op takes the parameters it
\* holds, or asks for them when it holds none
UseConnInfo(op) ==
    \E typed \in inputs :
        /\ conn_info' = IF NeedsPrompt(conn_info)
                           THEN GetConnectionInfo(typed, ssh_config)
                           ELSE conn_info
        /\ prompted' = NeedsPrompt(conn_info)
        /\ connAtStart' = conn_info
        /\ lastOp' = op
        /\ UNCHANGED << ssh_config, inputs >>

InitWith(locals, remotes, typed, budget, peers) ==
    /\ local \in locals
    /\ remote \in remotes
    /\ remoteInit = remote
    /\ policy = FALSE
    /\ pc = "idle"
    /\ cmdIdx = 1
    /\ public_key = <<>>
    /\ deployed = "pending"
    /\ vstate = "NotStarted"
    /\ outcome = "none"
    /\ sessionOpen = FALSE
    /\ connected = "no"
    /\ confirmRead = FALSE
    /\ content = <<>>
    /\ executed = <<>>
    /\ faulted = {}
    /\ warned = {}
    /\ raised = FALSE
    /\ requests = 0
    /\ okDeploys = 0
    /\ local0 = local
    /\ remote0 = remote
    /\ keyExisted = FALSE
    /\ keyCalls = "none"
    /\ fsWrites = <<>>
    /\ keygenRan = FALSE
    /\ returned = <<>>
    /\ vfault = "none"
    /\ vtrace = <<"NotStarted">>
    /\ leaked = FALSE
    /\ connects = 0
    /\ reports = 0
    /\ conn_info = "None"
    /\ ssh_config = "empty"
    /\ inputs = typed
    /\ lastOp = "none"
    /\ prompted = FALSE
    /\ connAtStart = "None"
    /\ faultBudget = budget
    /\ peerKey \in peers
    /\ peerIdx = IF peerKey = <<>> THEN 0 ELSE 1
    /\ peerDeployed = "pending"

\* one deployer, whose operator always types the parameters of the same
\* server, and an environment that may disturb MaxFaults commands
Init == InitWith(LocalInits, RemoteInits, {"t1"}, MaxFaults, {<<>>})

\* deploy_ssh_key is chosen from the menu: a new deployment request begins
DeploySshKey ==
    /\ pc = "idle"
    /\ requests < MaxRequests
    /\ requests' = requests + 1
    /\ pc' = "keygen"
    /\ cmdIdx' = 1
    /\ public_key' = <<>>
    /\ deployed' = "pending"
    /\ vstate' = "NotStarted"
    /\ outcome' = "none"
    /\ connected' = "no"
    /\ confirmRead' = FALSE
    /\ content' = <<>>
    /\ executed' = <<>>
    /\ faulted' = {}
    /\ warned' = {}
    /\ raised' = FALSE
    /\ local0' = local
    /\ remote0' = remote
    /\ keyExisted' = FALSE
    /\ keyCalls' = "none"
    /\ fsWrites' = <<>>
    /\ keygenRan' = FALSE
    /\ vfault' = "none"
    /\ vtrace' = <<"NotStarted">>
    /\ leaked' = (leaked \/ sessionOpen)
    /\ sessionOpen' = FALSE
    /\ connects' = 0
    /\ reports' = 0
    /\ policy' = FALSE
    /\ UseConnInfo("deploy")
    /\ UNCHANGED << local, remote, remoteInit, okDeploys, returned, faultBudget,
                    peerVars >>

\* a deploy that goes on to the session although generate_key_pair raised
AfterKeyPairGoesOn(ok) == "connect"

\* deploy_public_key, lines 87 and 141-143: a raise of generate_key_pair
\* reaches the except clause, a return goes on to ssh.connect
AfterKeyPair(ok) == IF ok THEN "connect" ELSE "returned"

\* deploy_public_key, line 87: generate_key_pair runs to its return or raise
GenerateKeyPair ==
    /\ pc = "keygen"
    /\ \E fault \in LocalFaults, k \in KeyMaterial, mode \in KeygenModes :
         LET g == GenerateKeyPairResult(local, fault, k, mode)
         IN  /\ local' = g.local
             /\ local0' = local
             /\ keyExisted' = local.priv
             /\ fsWrites' = g.writes
             /\ keygenRan' = g.keygen
             /\ keyCalls' = IF g.ok THEN "ok" ELSE "failed"
             /\ returned' = IF g.ok THEN Append(returned, g.key) ELSE returned
             /\ public_key' = g.key
             /\ deployed' = IF g.ok THEN "pending" ELSE "False"
             /\ pc' = AfterKeyPair(g.ok)
    /\ UNCHANGED << cmdVars, confirmVars, verifyVars, fixedVars, menuVars, peerVars, countVars,
                    sessionOpen, connected >>

\* a connect failure that is swallowed: the command loop runs anyway
ConnectFailedGoesOn ==
    /\ connected' = "failed"
    /\ pc' = "cmd"
    /\ UNCHANGED << deployed, sessionOpen >>

\* a connect failure answered by another attempt
ConnectFailedRetries ==
    /\ connected' = "failed"
    /\ pc' = "connect"
    /\ UNCHANGED << deployed, sessionOpen >>

\* what deploy_public_key does when ssh.connect fails: the except clause
ConnectFailed ==
    /\ connected' = "failed"
    /\ deployed' = "False"
    /\ pc' = "returned"
    /\ UNCHANGED sessionOpen

\* deploy_public_key, lines 89-91: open the password session
Connect ==
    /\ pc = "connect"
    /\ \/ /\ connected' = "ok"
          /\ sessionOpen' = TRUE
          /\ pc' = "cmd"
          /\ UNCHANGED deployed
       \/ ConnectFailed
    /\ connects' = connects + 1
    /\ UNCHANGED << keyVars, cmdVars, confirmVars, verifyVars, fixedVars, menuVars, peerVars, reports >>

CanFault == Cardinality(faulted) < faultBudget

\* a loop that gives up at the first command that writes to stderr
AfterCommandAbort(err) ==
    IF err THEN "returned" ELSE IF cmdIdx = Len(Commands) THEN "confirm" ELSE "cmd"

\* what the loop does after a command whose stderr was not empty: log, go on
AfterCommand(err) == IF cmdIdx = Len(Commands) THEN "confirm" ELSE "cmd"

\* deploy_public_key, lines 122-129: one iteration of the command loop
ExecCommand ==
    /\ pc = "cmd"
    /\ LET c == Commands[cmdIdx] IN
       \/ \E fault \in {"none", "fail"} :
            LET res == RunCommand(c, remote, public_key, fault)
            IN  /\ fault = "fail" => CanFault
                /\ remote' = res.remote
                /\ executed' = Append(executed, c)
                /\ faulted' = IF fault = "fail" THEN faulted \cup {c} ELSE faulted
                /\ warned' = IF res.err THEN warned \cup {c} ELSE warned
                /\ pc' = AfterCommand(res.err)
                /\ cmdIdx' = cmdIdx + 1
                /\ UNCHANGED << raised, deployed >>
       \/ /\ CanFault
          /\ raised' = TRUE
          /\ faulted' = faulted \cup {c}
          /\ deployed' = "False"
          /\ pc' = "returned"
          /\ UNCHANGED << remote, executed, warned, cmdIdx >>
    /\ UNCHANGED << keyVars, confirmVars, verifyVars, fixedVars, menuVars, peerVars, countVars,
                    sessionOpen, connected >>

\* deploy_public_key, lines 131-139: confirmation read, test, close, return
ConfirmRead ==
    /\ pc = "confirm"
    /\ \E fault \in {"none", "fail"} :
         LET out == IF fault = "fail" THEN <<>> ELSE ConfirmContent(remote)
         IN  /\ fault = "fail" => CanFault
             /\ content' = out
             /\ confirmRead' = TRUE
             /\ faulted' = IF fault = "fail" THEN faulted \cup {"cat"} ELSE faulted
             /\ IF KeyMissing(public_key, out)
                THEN /\ deployed' = "False"
                     /\ UNCHANGED << sessionOpen, okDeploys >>
                ELSE /\ deployed' = "True"
                     /\ sessionOpen' = FALSE
                     /\ okDeploys' = okDeploys + 1
    /\ pc' = "returned"
    /\ UNCHANGED << keyVars, remote, cmdIdx, executed, warned, raised,
                    verifyVars, fixedVars, menuVars, peerVars, countVars, connected >>

\* deploy_ssh_key, lines 114-115: deploy_public_key returned False
ReportFailed ==
    /\ pc = "returned"
    /\ deployed = "False"
    /\ outcome' = OutcomeOf(deployed, vstate)
    /\ reports' = reports + 1
    /\ pc' = "idle"
    /\ UNCHANGED << keyVars, cmdVars, confirmVars, fixedVars, menuVars, peerVars, vstate, vfault,
                    vtrace, policy, deployed, sessionOpen, connected, connects >>

\* deploy_ssh_key, lines 102-103: verify_connection starts the key-only session
VerifyStart ==
    /\ pc = "returned"
    /\ deployed = "True"
    /\ vstate' = "SessionAttempted"
    /\ vtrace' = Append(vtrace, vstate')
    /\ pc' = "verify"
    /\ UNCHANGED << keyVars, cmdVars, confirmVars, fixedVars, menuVars, peerVars, countVars, outcome,
                    vfault, policy, deployed, sessionOpen, connected >>

\* verify_connection, lines 162-182, and the report of deploy_ssh_key
VerifyFinish ==
    /\ pc = "verify"
    /\ \E f \in VerifyFaults, pol \in BOOLEAN :
         /\ vfault' = f
         /\ policy' = pol
         /\ vstate' = VerifyState(remote, public_key, pol, f)
         /\ vtrace' = Append(vtrace, vstate')
         /\ outcome' = OutcomeOf(deployed, vstate')
    /\ reports' = reports + 1
    /\ pc' = "idle"
    /\ UNCHANGED << keyVars, cmdVars, confirmVars, fixedVars, menuVars, peerVars, deployed,
                    sessionOpen, connected, connects >>

\* the run time reclaims the SSHClient objects no longer referenced: the
\* bootstrap sessions that deploy_public_key left open when it returned
\* False are closed at some later time, or never
CollectSession ==
    /\ pc = "idle"
    /\ sessionOpen \/ leaked
    /\ sessionOpen' = FALSE
    /\ leaked' = FALSE
    /\ UNCHANGED << keyVars, cmdVars, confirmVars, verifyVars, countVars,
                    remoteInit, requests, remote0, pc, deployed, connected,
                    faultBudget, menuVars, peerVars >>

Next ==
    \/ DeploySshKey
    \/ GenerateKeyPair
    \/ Connect
    \/ ExecCommand
    \/ ConfirmRead
    \/ ReportFailed
    \/ VerifyStart
    \/ VerifyFinish
    \/ CollectSession

Spec == Init /\ [][Next]_vars

\* ------------------------------------------------- the other menu handlers
deployVars ==
    << keyVars, cmdVars, confirmVars, verifyVars, fixedVars, countVars, pc,
       deployed, sessionOpen, connected, peerVars >>

\* test_connection, lines 68-87: the TCP probe and the password session it
\* opens and closes write nothing; conn_info is what the handler leaves
TestConnection ==
    /\ pc = "idle"
    /\ UseConnInfo("test")
    /\ UNCHANGED deployVars

\* check_remote_config, lines 117-136: a password session that greps
\* sshd_config and is closed; conn_info is what the handler leaves
CheckRemoteConfig ==
    /\ pc = "idle"
    /\ UseConnInfo("check")
    /\ UNCHANGED deployVars

\* update_config, lines 142-152: ask again, keep the answer in conn_info
\* and copy it, password included, into SSH_CONFIG
UpdateConfig ==
    /\ pc = "idle"
    /\ \E typed \in inputs :
         /\ conn_info' = GetConnectionInfo(typed, ssh_config)
         /\ ssh_config' = GetConnectionInfo(typed, ssh_config)
    /\ prompted' = TRUE
    /\ connAtStart' = conn_info
    /\ lastOp' = "update"
    /\ UNCHANGED << inputs, deployVars >>

\* an operator who may leave the prompts blank or name either server, and
\* a remote account whose commands all succeed
InitMenu == InitWith(LocalInits, RemoteInits, Typed, 0, {<<>>})

NextMenu ==
    \/ DeploySshKey
    \/ GenerateKeyPair
    \/ Connect
    \/ ExecCommand
    \/ ConfirmRead
    \/ ReportFailed
    \/ VerifyStart
    \/ VerifyFinish
    \/ TestConnection
    \/ CheckRemoteConfig
    \/ UpdateConfig

SpecMenu == InitMenu /\ [][NextMenu]_vars

\* ------------------------------------ a second deployer on the same account
\* deploy_public_key, lines 122-129, in another process that deploys
\* peerKey to the same remote account: one iteration of its command loop
PeerCommand ==
    /\ peerIdx \in 1..Len(Commands)
    /\ remote' = CmdEffect(Commands[peerIdx], remote, peerKey).remote
    /\ peerIdx' = peerIdx + 1
    /\ UNCHANGED << keyVars, cmdIdx, executed, faulted, warned, raised,
                    confirmVars, verifyVars, fixedVars, menuVars, countVars,
                    pc, deployed, sessionOpen, connected, peerKey, peerDeployed >>

\* deploy_public_key, lines 131-139, in that process: its confirmation read
PeerConfirmRead ==
    /\ peerIdx = Len(Commands) + 1
    /\ peerDeployed = "pending"
    /\ peerDeployed' = IF KeyMissing(peerKey, ConfirmContent(remote))
                         THEN "False" ELSE "True"
    /\ UNCHANGED << keyVars, cmdVars, confirmVars, verifyVars, fixedVars,
                    menuVars, countVars, pc, deployed, sessionOpen, connected,
                    peerKey, peerIdx >>

\* two deployers before the same remote account, whose commands all succeed
InitRace == InitWith(LocalInits, RemoteInits, {"t1"}, 0, KeyMaterial)

NextRace ==
    \/ DeploySshKey
    \/ GenerateKeyPair
    \/ Connect
    \/ ExecCommand
    \/ ConfirmRead
    \/ ReportFailed
    \/ VerifyStart
    \/ VerifyFinish
    \/ PeerCommand
    \/ PeerConfirmRead

SpecRace == InitRace /\ [][NextRace]_vars

\* ------------------------------------------------------------------ claims
AllRun == executed = Commands
Finished == pc = "idle" /\ outcome # "none"
SameKeys(seq) == \A i, j \in DOMAIN seq : seq[i] = seq[j]

\* C1: whenever deploy_public_key has returned True, the confirmation read of
\* that call contained the public key as an exact substring; whenever the
\* confirmation read does not contain the key the call returns False and
\* the request is never reported deployed-and-verified.
C1_SuccessHasKeyInConfirmation ==
    /\ deployed = "True" => confirmRead /\ IsSubstring(public_key, content)
    /\ (confirmRead /\ ~IsSubstring(public_key, content)) =>
          /\ deployed = "False"
          /\ outcome # "deployed-and-verified"
          /\ vstate = "NotStarted"

\* C1 witness: a deploy returned True on a confirmation read that holds more
\* than the key itself.
C1_Witness ==
    /\ deployed = "True"
    /\ confirmRead
    /\ Len(content) > Len(public_key)

\* C2: a finished request has exactly one of the three outcomes; it is failed
\* when the bootstrap session or the confirmation read failed, and then the
\* verification was never attempted; deployed-unverified when the deploy
\* succeeded and verification ended Unverified; deployed-and-verified only
\* when installation, confirmation and verification all succeeded. A request
\* that has not finished can always take a step.
C2_OutcomeMapping ==
    /\ outcome \in {"none", "failed", "deployed-unverified", "deployed-and-verified"}
    /\ Finished =>
          /\ (connected = "failed" \/ (confirmRead /\ KeyMissing(public_key, content)))
                => outcome = "failed"
          /\ outcome = "failed" <=> deployed = "False"
          /\ outcome = "failed" => vtrace = <<"NotStarted">>
          /\ outcome = "deployed-unverified" <=>
                (deployed = "True" /\ vstate = "Unverified")
          /\ outcome = "deployed-and-verified" <=>
                (deployed = "True" /\ vstate = "Verified")
          /\ deployed = "True" =>
                /\ connected = "ok" /\ AllRun /\ confirmRead
                /\ ~KeyMissing(public_key, content)
    /\ pc # "idle" => ENABLED Next

\* C2 witness: a request that ended deployed-unverified.
C2_Witness == Finished /\ outcome = "deployed-unverified" /\ vstate = "Unverified"

\* C3 (as stated): when the private key file exists, generate_key_pair returns
\* the same key material on every call, does not run ssh-keygen and issues
\* no write operation at all on the local file system.
C3_NoWriteAtAll ==
    (keyExisted /\ keyCalls = "ok") =>
        /\ ~keygenRan
        /\ fsWrites = <<>>
        /\ local = local0
        /\ SameKeys(returned)

\* C3 (amended): when the private key file exists, generate_key_pair returns
\* the same key material on every call, does not run ssh-keygen, creates no
\* directory and writes no file; the one write operation it issues is the
\* chmod of the key directory to 0700, which changes nothing else.
C3_OnlyDirChmod ==
    (keyExisted /\ keyCalls # "none") =>
        /\ ~keygenRan
        /\ fsWrites \in {<<>>, <<"chmod_dir">>}
        /\ local = IF fsWrites = <<>> THEN local0
                   ELSE [local0 EXCEPT !.dirMode = O700]
        /\ SameKeys(returned)
        /\ keyCalls = "ok" => returned[Len(returned)] = Strip(local0.pubContent)

\* C3 witness: a second successful call on an existing key.
C3_Witness ==
    /\ keyExisted /\ keyCalls = "ok"
    /\ Len(returned) >= 2
    /\ fsWrites = <<"chmod_dir">>

\* C4: when the password session cannot be opened the call returns False and
\* no remote command is executed: the remote account is as the request
\* found it.
C4_ConnectFailureTouchesNothing ==
    connected = "failed" =>
        /\ deployed = "False"
        /\ executed = <<>>
        /\ ~confirmRead
        /\ remote = remote0
        /\ outcome \in {"none", "failed"}
        /\ pc \in {"returned", "idle"}

\* C4 witness: a failed connect to an account that has an authorized_keys.
C4_Witness == connected = "failed" /\ outcome = "failed" /\ remote0.ak

\* C5: the verification state machine moves NotStarted -> SessionAttempted ->
\* {Verified, Unverified}; once verify_connection has returned it is in a
\* final state, Verified exactly when the ssh client ended cleanly on a
\* server that accepts the key, Unverified on an authentication failure, a
\* protocol failure, a timeout or a failure to run the client, and the
\* handler goes on to its report.
C5_VerificationStateMachine ==
    /\ vtrace \in { <<"NotStarted">>,
                    <<"NotStarted", "SessionAttempted">>,
                    <<"NotStarted", "SessionAttempted", "Verified">>,
                    <<"NotStarted", "SessionAttempted", "Unverified">> }
    /\ vstate = vtrace[Len(vtrace)]
    /\ vstate = "SessionAttempted" <=> pc = "verify"
    /\ (Finished /\ deployed = "True") => vstate \in {"Verified", "Unverified"}
    /\ vstate = "Verified" =>
          vfault = "none" /\ AuthAccepts(remote, public_key, policy)
    /\ vstate = "Unverified" =>
          vfault # "none" \/ ~AuthAccepts(remote, public_key, policy)

\* C5 witness: a server that rejects public-key authentication; the ssh
\* client itself ran without fault and the request ended Unverified.
C5_Witness ==
    /\ Finished /\ vstate = "Unverified"
    /\ vfault = "none" /\ ~policy
    /\ outcome = "deployed-unverified"

PermissionCommands == {"chmod_home", "chmod_ssh", "chmod_ak"}

FinalPermissions ==
    /\ ~GroupWorldWritable(remote.home)
    /\ remote.sshDir /\ remote.sshMode = O700
    /\ remote.ak /\ remote.akMode = O600

C7_WarningsDoNotAbort ==
    (connected = "ok" /\ ~raised) =>
        /\ warned \subseteq {executed[i] : i \in DOMAIN executed}
        /\ Len(executed) <= Len(Commands)
        /\ executed = SubSeq(Commands, 1, Len(executed))
        /\ pc = "cmd" => Len(executed) = cmdIdx - 1 /\ deployed = "pending"
        /\ pc # "cmd" => AllRun
        /\ confirmRead <=> pc \in {"returned", "verify", "idle"}
        /\ confirmRead => (deployed = "False" <=> KeyMissing(public_key, content))

\* C7 witness: chmod 700 ~ failed with a warning, the rest of the list ran,
\* and the deploy returned True.
C7_Witness ==
    /\ "chmod_home" \in warned
    /\ AllRun /\ confirmRead
    /\ deployed = "True"

FreshAccount(r) == ~r.sshDir /\ ~r.ak /\ ~r.bak

\* C8: on a fresh account (no ~/.ssh, no authorized_keys), with the session
\* opened and no command made to fail, the deploy returns True and, when the
\* server accepts the key, the request ends deployed-and-verified: no
\* command warned (nothing to back up is not an error), ~/.ssh exists with
\* mode 700, authorized_keys holds exactly the key line with mode 600, and
\* no backup was made.
C8_FreshAccountDeploys ==
    (/\ Finished
     /\ FreshAccount(remote0)
     /\ keyCalls = "ok" /\ connected = "ok" /\ faulted = {})
    =>
    /\ deployed = "True"
    /\ (policy /\ vfault = "none") => outcome = "deployed-and-verified"
    /\ warned = {}
    /\ AllRun /\ confirmRead /\ content = public_key
    /\ FinalPermissions
    /\ remote.akContent = public_key \o <<NL>>
    /\ ~remote.bak

\* C8 witness: such a request, finished.
C8_Witness ==
    /\ Finished /\ FreshAccount(remote0)
    /\ keyCalls = "ok" /\ connected = "ok" /\ faulted = {}
    /\ policy /\ vfault = "none"
    /\ outcome = "deployed-and-verified"

\* C9: when the same key has been deployed twice to the account, both
\* deploys returning True, authorized_keys holds two more lines equal to the
\* key than before.
C9_TwoDeploysTwoLines ==
    (requests = 2 /\ okDeploys = 2) =>
        CountLine(public_key, remote.akContent)
            = CountLine(public_key, remoteInit.akContent) + 2

\* C10: a generate_key_pair call that ran ssh-keygen and returned has set the
\* key file permissions, and whenever some call has returned a key the
\* private key file is owner read/write only.
C10_PrivateKeyNeverReadable ==
    /\ (keygenRan /\ keyCalls = "ok") =>
          local.privMode = O600 /\ local.pubMode = O644
    /\ returned # <<>> => (local.priv /\ local.privMode = O600)

\* C11: key provisioning completes before the bootstrap session: ssh.connect
\* is reached only after generate_key_pair has returned a key, and when
\* generate_key_pair fails (directory error, ssh-keygen returning non-zero,
\* unreadable key file) the call returns False with no session opened and
\* no remote command executed.
C11_KeyBeforeSession ==
    /\ pc = "keygen" => (keyCalls = "none" /\ connected = "no")
    /\ (connected # "no" \/ executed # <<>> \/ confirmRead) =>
          (keyCalls = "ok" /\ public_key = returned[Len(returned)])
    /\ keyCalls = "failed" =>
          /\ deployed = "False"
          /\ connected = "no"
          /\ executed = <<>> /\ ~confirmRead
          /\ remote = remote0
          /\ vtrace = <<"NotStarted">>
          /\ outcome \in {"none", "failed"}

\* C11 witness: ssh-keygen returned non-zero and the request ended failed.
C11_Witness ==
    /\ keyCalls = "failed" /\ keygenRan
    /\ ~local.priv
    /\ Finished /\ outcome = "failed"

\* sessions open at this moment: the bootstrap session of this request, one
\* left open by an earlier request, the key-only session of the verification
OpenSessions ==
    (IF sessionOpen THEN 1 ELSE 0) + (IF leaked THEN 1 ELSE 0)
        + (IF pc = "verify" THEN 1 ELSE 0)

\* C12: at most one session is open at any time, and the bootstrap session
\* of a request is closed before its verification session is opened.
C12_OneSessionAtATime ==
    /\ OpenSessions <= 1
    /\ ~(sessionOpen /\ pc = "verify")

\* C13: within one request ssh.connect is called at most once, no command
\* is executed twice, the verification session is attempted at most once,
\* and a finished request has reported its outcome exactly once.
C13_NoRetries ==
    /\ connects <= 1
    /\ connected # "no" <=> connects = 1
    /\ \A i, j \in DOMAIN executed : executed[i] = executed[j] => i = j
    /\ Cardinality({i \in DOMAIN vtrace : vtrace[i] = "SessionAttempted"}) <= 1
    /\ reports <= 1
    /\ Finished <=> reports = 1
    /\ (Finished /\ deployed = "False") => outcome = "failed"

\* C13 witness: a request whose only connect attempt failed, reported once.
C13_Witness ==
    /\ Finished /\ connected = "failed"
    /\ connects = 1 /\ reports = 1
    /\ outcome = "failed"

\* C17: whenever deploy_public_key has returned after opening the bootstrap
\* session, that session is closed.
C17_SessionClosedOnReturn ==
    (connected = "ok" /\ deployed # "pending") => ~sessionOpen

IsPrefix(s, t) == Len(s) <= Len(t) /\ SubSeq(t, 1, Len(s)) = s

\* how many times the text k occurs in the text t
Occurrences(k, t) ==
    Cardinality({i \in 0..(Len(t) - Len(k)) : SubSeq(t, i + 1, i + Len(k)) = k})

\* C14: when authorized_keys existed before the deploy and every command
\* succeeded, authorized_keys.bak holds the content from before the deploy,
\* authorized_keys holds that content followed by the key, and the lines
\* that were there are all still there, unaltered and in their order, with
\* the key as one more line after them.
C14_ExistingLinesPreserved ==
    (connected = "ok" /\ AllRun /\ faulted = {} /\ remote0.ak) =>
        /\ remote.bak /\ remote.bakContent = remote0.akContent
        /\ remote.akContent = remote0.akContent \o public_key \o <<NL>>
        /\ IsPrefix(Lines(remote0.akContent), Lines(remote.akContent))
        /\ Lines(remote.akContent) = Append(Lines(remote0.akContent), public_key)

\* C18: after a deploy that returned True the key is a complete line of
\* authorized_keys.
C18_KeyIsALine ==
    deployed = "True" => (remote.ak /\ CountLine(public_key, remote.akContent) > 0)

\* C19: after a deploy that returned True authorized_keys holds one more
\* occurrence of the key than when the request began.
C19_AppendTookEffect ==
    deployed = "True" =>
        Occurrences(public_key, remote.akContent)
            = Occurrences(public_key, remote0.akContent) + 1

ConnectingOps == {"test", "deploy", "check"}

\* C16: connection parameters are not retained once an operation has ended,
\* no test, deploy or remote-config check runs with parameters captured by
\* an earlier operation, and nothing is stored in SSH_CONFIG.
C16_ConnInfoTransient ==
    /\ pc = "idle" => conn_info = "None"
    /\ lastOp \in ConnectingOps => prompted
    /\ ssh_config = "empty"

\* C16 (amended): once an operation has asked for them the connection
\* parameters stay in conn_info; a test, deploy or remote-config check asks
\* only when conn_info is None and otherwise runs with the parameters it
\* found there; update_config always asks, replaces conn_info and leaves
\* the same parameters in SSH_CONFIG.
C16_ConnInfoRetained ==
    /\ lastOp # "none" => conn_info # "None"
    /\ lastOp \in ConnectingOps =>
          /\ prompted <=> connAtStart = "None"
          /\ ~prompted => conn_info = connAtStart
    /\ lastOp = "update" => (prompted /\ ssh_config = conn_info)
    /\ ssh_config # "empty" => ssh_config = conn_info

C16_Witness ==
    /\ lastOp = "deploy"
    /\ deployed = "True"
    /\ ~prompted
    /\ connAtStart \in Targets
    /\ conn_info = connAtStart
    /\ ssh_config = conn_info

\* the lines of text t, as a set
LineSet(t) == {Lines(t)[i] : i \in DOMAIN Lines(t)}

\* C15: when two deployers with different keys work on the same account,
\* their commands interleaved in any order, both confirmation reads find
\* their key, and once both have returned authorized_keys has every line it
\* had before and both keys as lines.
C15_RaceIsBenign ==
    /\ (confirmRead /\ peerIdx > 0) => deployed = "True"
    /\ peerDeployed # "False"
    /\ (deployed = "True" /\ peerDeployed = "True" /\ public_key # peerKey) =>
          /\ LineSet(remoteInit.akContent) \subseteq LineSet(remote.akContent)
          /\ public_key \in LineSet(remote.akContent)
          /\ peerKey \in LineSet(remote.akContent)

====
